---- MODULE Spec2Model ----
(***************************************************************************)
(* Model of the Feature Service registry of @feature-hub/core              *)
(* (packages/core/src/feature-service-registry.ts): ordered registration   *)
(* of providers, binding of consumers, and the unbind handles.             *)
(***************************************************************************)
EXTENDS Integers, Sequences, FiniteSets, TLC

\* ------------------------------------------------------------------------
\* Bounds of the model
\* ------------------------------------------------------------------------
\* definitions in one registerFeatureServices call
MaxBatch == 2
\* handles that bindFeatureServices returns to consumers
MaxHandles == 1
\* the same, where handles are unbound and their consumers bound again
MaxLifecycleHandles == 2

\* ------------------------------------------------------------------------
\* JavaScript values: strings, undefined, and plain objects.
\* A plain object is the sequence of its <<key, value>> properties in
\* creation order (keys distinct).
\* ------------------------------------------------------------------------
Undefined == "<undefined>"

\* The spelling of every string the model uses as a property key.
Chars(s) ==
  CASE s = "1" -> <<"1">>
    [] s = "2" -> <<"2">>
    [] s = "1.0.0" -> <<"1", ".", "0", ".", "0">>
    [] s = "2.0.0" -> <<"2", ".", "0", ".", "0">>
    [] s = "foo" -> <<"f", "o", "o">>
    [] s = "a" -> <<"a">>
    [] s = "b" -> <<"b">>
    [] s = "c" -> <<"c">>
    [] s = "x" -> <<"x">>

Digits == {"0", "1", "2", "3", "4", "5", "6", "7", "8", "9"}

DigitVal(c) ==
  CASE c = "0" -> 0 [] c = "1" -> 1 [] c = "2" -> 2 [] c = "3" -> 3
    [] c = "4" -> 4 [] c = "5" -> 5 [] c = "6" -> 6 [] c = "7" -> 7
    [] c = "8" -> 8 [] c = "9" -> 9

RECURSIVE NumVal(_)
NumVal(cs) ==
  IF cs = <<>> THEN 0
  ELSE 10 * NumVal(SubSeq(cs, 1, Len(cs) - 1)) + DigitVal(cs[Len(cs)])

\* A canonical numeric string: such property keys are enumerated first, in
\* ascending numeric order, by Object.keys and by object spread.
IsArrayIndexChars(cs) ==
  /\ Len(cs) >= 1
  /\ \A i \in DOMAIN cs : cs[i] \in Digits
  /\ (Len(cs) = 1 \/ cs[1] # "0")

IsArrayIndex(s) == IsArrayIndexChars(Chars(s))

IndexOf(s) == NumVal(Chars(s))

HasOwnProperty(obj, k) == \E i \in DOMAIN obj : obj[i][1] = k

Get(obj, k) ==
  IF HasOwnProperty(obj, k)
    THEN obj[CHOOSE i \in DOMAIN obj : obj[i][1] = k][2]
    ELSE Undefined

RECURSIVE SortedIndexKeys(_)
SortedIndexKeys(S) ==
  IF S = {} THEN <<>>
  ELSE LET index == [k \in S |-> IndexOf(k)]
           m == CHOOSE k \in S : \A o \in S : index[k] <= index[o]
       IN <<m>> \o SortedIndexKeys(S \ {m})

RECURSIVE StringKeys(_)
StringKeys(obj) ==
  IF obj = <<>> THEN <<>>
  ELSE IF IsArrayIndex(Head(obj)[1])
         THEN StringKeys(Tail(obj))
         ELSE <<Head(obj)[1]>> \o StringKeys(Tail(obj))

\* Object.keys(obj): integer keys ascending, then the other keys in creation
\* order.
ObjectKeys(obj) ==
  SortedIndexKeys({k \in {obj[i][1] : i \in DOMAIN obj} : IsArrayIndex(k)})
    \o StringKeys(obj)

\* obj[k] = v
Set(obj, k, v) ==
  IF HasOwnProperty(obj, k)
    THEN [i \in DOMAIN obj |-> IF obj[i][1] = k THEN <<k, v>> ELSE obj[i]]
    ELSE Append(obj, <<k, v>>)

RECURSIVE CopyProps(_, _, _)
CopyProps(target, source, keys) ==
  IF keys = <<>> THEN target
  ELSE CopyProps(Set(target, Head(keys), Get(source, Head(keys))),
                 source, Tail(keys))

\* Object.assign(target, source)
Assign(target, source) == CopyProps(target, source, ObjectKeys(source))

RECURSIVE AssignAll(_, _)
AssignAll(target, sources) ==
  IF sources = <<>> THEN target
  ELSE AssignAll(Assign(target, Head(sources)), Tail(sources))

\* {...first, ...second}
\* Spread with the properties of the first object taking precedence
SpreadFirstWins(first, second) == AssignAll(<<>>, <<second, first>>)

Spread(first, second) == AssignAll(<<>>, <<first, second>>)

\* ------------------------------------------------------------------------
\* semver: coerce() and satisfies()
\* ------------------------------------------------------------------------
Null == <<>>

RECURSIVE DigitRunEnd(_, _)
\* index of the last digit of the run of digits that starts at i
DigitRunEnd(cs, i) ==
  IF i < Len(cs) /\ cs[i + 1] \in Digits THEN DigitRunEnd(cs, i + 1) ELSE i

\* The version read from the digit run cs[i1..e1] and what follows it
CoercePatch(cs, major, minor, e2) ==
  IF e2 + 2 <= Len(cs) /\ cs[e2 + 1] = "." /\ cs[e2 + 2] \in Digits
    THEN <<major, minor, NumVal(SubSeq(cs, e2 + 2, DigitRunEnd(cs, e2 + 2)))>>
    ELSE <<major, minor, 0>>

CoerceMinorEnd(cs, major, e1, e2) ==
  CoercePatch(cs, major, NumVal(SubSeq(cs, e1 + 2, e2)), e2)

CoerceMinor(cs, major, e1) ==
  IF e1 + 2 <= Len(cs) /\ cs[e1 + 1] = "." /\ cs[e1 + 2] \in Digits
    THEN CoerceMinorEnd(cs, major, e1, DigitRunEnd(cs, e1 + 2))
    ELSE <<major, 0, 0>>

CoerceMajorEnd(cs, i1, e1) == CoerceMinor(cs, NumVal(SubSeq(cs, i1, e1)), e1)

CoerceMajor(cs, i1) == CoerceMajorEnd(cs, i1, DigitRunEnd(cs, i1))

CoerceChars(cs) ==
  IF \A i \in DOMAIN cs : cs[i] \notin Digits THEN Null
  ELSE CoerceMajor(cs, CHOOSE i \in DOMAIN cs :
                         /\ cs[i] \in Digits
                         /\ \A j \in 1..(i - 1) : cs[j] \notin Digits)

\* coerce(version): the first number in the string with up to two further
\* dot separated numbers, missing ones being 0; null when there is no digit.
coerce(version) == CoerceChars(Chars(version))

VersionLess(v, w) ==
  \/ v[1] < w[1]
  \/ v[1] = w[1] /\ v[2] < w[2]
  \/ v[1] = w[1] /\ v[2] = w[2] /\ v[3] < w[3]

\* The comparator sets of the range strings the model uses: a range is a
\* set of alternatives (||), each a caret comparator with a major > 0.
ParseRange(range) ==
  CASE range = "^1.0" -> {<<1, 0, 0>>}
    [] range = "^2.0" -> {<<2, 0, 0>>}
    [] range = "^3.0" -> {<<3, 0, 0>>}
    [] range = "^1.0 || ^2.0" -> {<<1, 0, 0>>, <<2, 0, 0>>}

\* ^M.m.p with M > 0 is >=M.m.p <(M+1).0.0; no range contains null
satisfies(version, range) ==
  /\ version # Null
  /\ \E c \in ParseRange(range) :
       /\ ~VersionLess(version, c)
       /\ VersionLess(version, <<c[1] + 1, 0, 0>>)

\* ------------------------------------------------------------------------
\* The definitions, consumers and specifiers the operations are called with
\* ------------------------------------------------------------------------
NoSpecifier == "<none>"

\* A FeatureServiceBinder; the Binding it returns has an unbind callback
\* or not.
Binder(hasUnbind) == [hasUnbind |-> hasUnbind]

Returns(sharedFeatureService) == [throws |-> FALSE, returns |-> sharedFeatureService]
Throws == [throws |-> TRUE, returns |-> <<>>]

Definition(id, dependencies, optionalDependencies, create) ==
  [id |-> id, dependencies |-> dependencies,
   optionalDependencies |-> optionalDependencies, create |-> create]

SemverService == << <<"1.0.0", Binder(TRUE)>>, <<"2.0.0", Binder(TRUE)>> >>
PartialService == << <<"2", Binder(TRUE)>>, <<"1", Binder(FALSE)>> >>
InvalidService == << <<"1.0.0", Binder(TRUE)>>, <<"foo", Binder(TRUE)>> >>

ProviderDefinitions ==
  { Definition("a", <<>>, <<>>, Returns(SemverService)),
    Definition("a", <<>>, << <<"b", "^1.0">> >>, Returns(SemverService)),
    Definition("a", <<>>, <<>>, Throws),
    Definition("b", <<>>, << <<"a", "^1.0">> >>, Returns(SemverService)),
    Definition("b", << <<"a", "^1.0">> >>, <<>>, Returns(InvalidService)) }

Consumer(id, dependencies, optionalDependencies) ==
  [id |-> id, dependencies |-> dependencies,
   optionalDependencies |-> optionalDependencies]

ConsumerDefinitions ==
  { Consumer("x", << <<"a", "^1.0 || ^2.0">>, <<"b", "^1.0">> >>, <<>>),
    Consumer("x", << <<"a", "^2.0">> >>, << <<"b", "^1.0">>, <<"c", Undefined>> >>),
    Consumer("x", << <<"a", Undefined>> >>, <<>>),
    Consumer("x", << <<"a", "^3.0">> >>, << <<"a", "^1.0">> >>),
    Consumer("x", << <<"a", "^1.0">> >>, << <<"a", "^3.0">> >>),
    Consumer("x", <<>>, << <<"a", "^3.0">>, <<"b", "^1.0">> >>),
    Consumer("a", <<>>, <<>>) }

\* The calls of bindFeatureServices: every consumer definition without a
\* specifier, and the consumers without required dependencies with one.
BindCalls ==
  {<<c, NoSpecifier>> : c \in ConsumerDefinitions}
    \cup {<<c, "s">> : c \in {d \in ConsumerDefinitions :
                                   d.id = "x" /\ d.dependencies = <<>>}}

\* The calls of bindFeatureServices made while providers are registered
RegistryBindCalls ==
  {call \in BindCalls : call[1].dependencies = <<>> /\ call[2] = NoSpecifier}

\* The calls of bindFeatureServices of consumers that are unbound and bound
\* again
LifecycleBindCalls ==
  {call \in BindCalls : call[1].id = "x" /\ ~HasOwnProperty(call[1].dependencies, "a")}
    \cup {call \in BindCalls : Len(call[1].dependencies) = 2}

RECURSIVE SeqsUpTo(_, _)
SeqsUpTo(S, n) ==
  IF n = 0 THEN {<<>>}
  ELSE LET shorter == SeqsUpTo(S, n - 1)
       IN shorter \cup {Append(q, e) : q \in shorter, e \in S}

Batches == SeqsUpTo(ProviderDefinitions, MaxBatch) \ {<<>>}

\* The batches registered while consumers are bound and unbound
BinderBatches ==
  { << Definition("a", <<>>, <<>>, Returns(SemverService)) >>,
    << Definition("a", <<>>, <<>>, Returns(PartialService)) >>,
    << Definition("b", << <<"a", "^1.0">> >>, <<>>, Returns(SemverService)) >>,
    << Definition("b", << <<"a", "^1.0">> >>, <<>>, Returns(SemverService)),
       Definition("a", <<>>, << <<"b", "^1.0">> >>, Returns(SemverService)) >> }

\* ------------------------------------------------------------------------
\* State of a FeatureServiceRegistry and of the closures it has handed out
\* ------------------------------------------------------------------------
VARIABLES
  sharedFeatureServices,  \* Map providerId -> SharedFeatureService
  consumerUids,           \* Set of the bound consumer uids
  handles,                \* the FeatureServicesBinding closures made so far
  createLog,              \* providerId -> results of its create calls
  last,                   \* what the last operation was given and did
  renderSession           \* the RenderSession of the Async SSR Manager

vars ==
  <<sharedFeatureServices, consumerUids, handles, createLog, last, renderSession>>

ProviderIds == {d.id : d \in ProviderDefinitions}

\* ------------------------------------------------------------------------
\* bindFeatureService and bindFeatureServices
\* ------------------------------------------------------------------------
createUid(consumerId, consumerIdSpecifier) == <<consumerId, consumerIdSpecifier>>

Falsy(v) == v = Undefined \/ v = ""

RECURSIVE Find(_, _)
\* supportedVersions.find(v => satisfies(coerce(v), requiredVersion))
Find(supportedVersions, requiredVersion) ==
  IF supportedVersions = <<>> THEN Undefined
  ELSE IF satisfies(coerce(Head(supportedVersions)), requiredVersion)
         THEN Head(supportedVersions)
         ELSE Find(Tail(supportedVersions), requiredVersion)

\* Unresolved for a registry that never throws for a dependency
UnresolvedSkips(optional, message) ==
  [kind |-> "skip", message |-> message, version |-> Undefined,
   hasUnbind |-> FALSE]

\* Unresolved for a registry that throws for optional dependencies too
UnresolvedThrows(optional, message) ==
  [kind |-> "throw", message |-> message, version |-> Undefined,
   hasUnbind |-> FALSE]

\* What bindFeatureService does: it returns undefined for an optional
\* dependency, throws for a required one, or returns the Binding
Unresolved(optional, message) ==
  [kind |-> IF optional THEN "skip" ELSE "throw", message |-> message,
   version |-> Undefined, hasUnbind |-> FALSE]

\* bindFeatureService(consumerUid) of the version found
BindVersion(sharedFeatureService, version, optional) ==
  IF version = Undefined
    THEN Unresolved(optional, "featureServiceUnsupported")
    ELSE [kind |-> "binding", message |-> "", version |-> version,
          hasUnbind |-> Get(sharedFeatureService, version).hasUnbind]

bindFeatureService(sfs, providerId, consumerUid, requiredVersion, optional) ==
  IF Falsy(requiredVersion)
    THEN Unresolved(optional, "featureServiceDependencyVersionInvalid")
  ELSE IF providerId \notin DOMAIN sfs
    THEN Unresolved(optional, "featureServiceNotRegistered")
  ELSE BindVersion(sfs[providerId],
                   Find(ObjectKeys(sfs[providerId]), requiredVersion), optional)

\* The body of the for loop of bindFeatureServices, after bindFeatureService
BindOne(acc, providerId, binding) ==
  CASE binding.kind = "throw" ->
         [acc EXCEPT !.error = binding.message,
                     !.events = Append(@, <<"threw", providerId, binding.message>>)]
    [] binding.kind = "skip" ->
         [acc EXCEPT !.events =
            Append(@, <<"skipped", providerId, binding.message>>)]
    [] binding.kind = "binding" ->
         [acc EXCEPT
            !.events = Append(@, <<"binder", providerId, binding.version>>),
            !.bindings = Append(@, [providerId |-> providerId,
                                    version |-> binding.version,
                                    hasUnbind |-> binding.hasUnbind,
                                    unbindCalls |-> 0]),
            !.featureServices = Set(@, providerId, <<providerId, binding.version>>)]

RECURSIVE BindLoop(_, _, _, _, _)
\* the for loop of bindFeatureServices; acc is what it has built so far
BindLoop(sfs, keys, allDependencies, dependencies, acc) ==
  IF keys = <<>> \/ acc.error # "" THEN acc
  ELSE BindLoop(sfs, Tail(keys), allDependencies, dependencies,
         BindOne(acc, Head(keys),
           bindFeatureService(sfs, Head(keys), acc.consumerUid,
                              Get(allDependencies, Head(keys)),
                              ~HasOwnProperty(dependencies, Head(keys)))))

BindAll(sfs, allDependencies, dependencies, acc) ==
  BindLoop(sfs, ObjectKeys(allDependencies), allDependencies, dependencies, acc)

\* BindUid without the test of the active set
BindUidUnchecked(sfs, uids, dependencies, optionalDependencies, consumerUid) ==
  BindAll(sfs, Spread(optionalDependencies, dependencies), dependencies,
          [error |-> "", events |-> << <<"bind", consumerUid>> >>,
           bindings |-> <<>>, featureServices |-> <<>>,
           consumerUid |-> consumerUid])

BindUid(sfs, uids, dependencies, optionalDependencies, consumerUid) ==
  IF consumerUid \in uids
    THEN [error |-> "featureServicesAlreadyBound", events |-> <<>>,
          bindings |-> <<>>, featureServices |-> <<>>,
          consumerUid |-> consumerUid]
    ELSE BindAll(sfs, Spread(optionalDependencies, dependencies), dependencies,
                 [error |-> "", events |-> << <<"bind", consumerUid>> >>,
                  bindings |-> <<>>, featureServices |-> <<>>,
                  consumerUid |-> consumerUid])

\* The outcome of bindFeatureServices(consumerDefinition, consumerIdSpecifier)
\* on a registry with the given provider map and active uids: the error
\* thrown ("" when it returns), the calls and messages it makes, the
\* bindings Map and the featureServices object.
bindFeatureServices(sfs, uids, consumerDefinition, consumerIdSpecifier) ==
  BindUid(sfs, uids, consumerDefinition.dependencies,
          consumerDefinition.optionalDependencies,
          createUid(consumerDefinition.id, consumerIdSpecifier))

\* The closure state of the FeatureServicesBinding that a successful
\* bindFeatureServices returns: the uid, the bindings Map, the unbound flag;
\* returned tells whether the caller kept the handle.
Handle(bound, returned) ==
  [consumerUid |-> bound.consumerUid, bindings |-> bound.bindings,
   unbound |-> FALSE, returned |-> returned]

\* ------------------------------------------------------------------------
\* registerFeatureServices
\* ------------------------------------------------------------------------
LastIndexOf(definitions, id) ==
  CHOOSE i \in DOMAIN definitions :
    /\ definitions[i].id = id
    /\ \A j \in DOMAIN definitions : definitions[j].id = id => j <= i

\* Map id -> definition; a later definition of an id replaces an earlier one
createProviderDefinitionById(definitions) ==
  [id \in {definitions[i].id : i \in DOMAIN definitions} |->
     definitions[LastIndexOf(definitions, id)]]

\* DependenciesOf without the optional dependencies
DependenciesOfRequired(definition) == definition.dependencies

DependenciesOf(definition) ==
  Spread(definition.dependencies, definition.optionalDependencies)

\* Map id -> {...dependencies, ...optionalDependencies}
createDependencyGraph(definitions) ==
  [id \in {definitions[i].id : i \in DOMAIN definitions} |->
     DependenciesOf(definitions[LastIndexOf(definitions, id)])]

Orders(S) ==
  {p \in [1..Cardinality(S) -> S] : \A i, j \in DOMAIN p : i # j => p[i] # p[j]}

\* The orders of the nodes of the graph in which every node comes after the
\* nodes of the graph it depends on; there is none when the graph has a cycle.
toposortDependencies(dependencyGraph) ==
  {p \in Orders(DOMAIN dependencyGraph) :
     \A i, j \in DOMAIN p :
       HasOwnProperty(dependencyGraph[p[i]], p[j]) => j < i}

InvalidVersions(sharedFeatureService) ==
  {i \in DOMAIN sharedFeatureService : coerce(sharedFeatureService[i][1]) = Null}

\* MapSet for a map that keeps the last entry only
MapSetOnly(map, key, value) == [k \in {key} |-> value]

\* this.sharedFeatureServices.set(providerId, sharedFeatureService)
MapSet(map, key, value) ==
  [k \in DOMAIN map \cup {key} |-> IF k = key THEN value ELSE map[k]]

\* Create for a registry that deletes the uid of the provider when its
\* create throws or a version key is not coercible
CreateReleasesUid(st, providerId, create) ==
  IF create.throws
    THEN [st EXCEPT !.error = "createThrew", !.failedAt = providerId,
                    !.uids = @ \ {createUid(providerId, NoSpecifier)}]
  ELSE IF InvalidVersions(create.returns) # {}
    THEN [st EXCEPT !.error = "featureServiceVersionInvalid",
                    !.failedAt = providerId,
                    !.uids = @ \ {createUid(providerId, NoSpecifier)}]
  ELSE [st EXCEPT !.sfs = MapSet(@, providerId, create.returns),
                  !.events = Append(@, <<"registered", providerId>>)]

\* Create without the test of the version keys
CreateUnvalidated(st, providerId, create) ==
  IF create.throws
    THEN [st EXCEPT !.error = "createThrew", !.failedAt = providerId]
    ELSE [st EXCEPT !.sfs = MapSet(@, providerId, create.returns),
                    !.events = Append(@, <<"registered", providerId>>)]

\* Create with the SharedFeatureService stored before its versions are tested
CreateStoresFirst(st, providerId, create) ==
  IF create.throws
    THEN [st EXCEPT !.error = "createThrew", !.failedAt = providerId]
  ELSE IF InvalidVersions(create.returns) # {}
    THEN [st EXCEPT !.sfs = MapSet(@, providerId, create.returns),
                    !.error = "featureServiceVersionInvalid",
                    !.failedAt = providerId]
  ELSE [st EXCEPT !.sfs = MapSet(@, providerId, create.returns),
                  !.events = Append(@, <<"registered", providerId>>)]

\* providerDefinition.create(env) and what follows it in the loop body
Create(st, providerId, create) ==
  IF create.throws
    THEN [st EXCEPT !.error = "createThrew", !.failedAt = providerId]
  ELSE IF InvalidVersions(create.returns) # {}
    THEN [st EXCEPT !.error = "featureServiceVersionInvalid",
                    !.failedAt = providerId]
  ELSE [st EXCEPT !.sfs = MapSet(@, providerId, create.returns),
                  !.events = Append(@, <<"registered", providerId>>)]

\* RegisterBound for a registry that binds the provider without adding its
\* uid to the active set
RegisterBoundReleases(st, providerId, create, bound) ==
  IF bound.error # ""
    THEN [st EXCEPT !.error = bound.error, !.failedAt = providerId,
                    !.events = @ \o bound.events]
    ELSE Create([st EXCEPT !.handles = Append(@, Handle(bound, FALSE)),
                           !.events = (@ \o bound.events)
                                        \o << <<"create", providerId>> >>,
                           !.createLog[providerId] = Append(@, create)],
                providerId, create)

\* The else-if branch of the loop body, after this.bindFeatureServices
RegisterBound(st, providerId, create, bound) ==
  IF bound.error # ""
    THEN [st EXCEPT !.error = bound.error, !.failedAt = providerId,
                    !.events = @ \o bound.events]
    ELSE Create([st EXCEPT !.uids = @ \cup {bound.consumerUid},
                           !.handles = Append(@, Handle(bound, FALSE)),
                           !.events = (@ \o bound.events)
                                        \o << <<"create", providerId>> >>,
                           !.createLog[providerId] = Append(@, create)],
                providerId, create)

\* RegisterOne without the test for an id that is registered already
RegisterOneAgain(st, providerDefinitionsById, providerId) ==
  IF providerId \in DOMAIN providerDefinitionsById
    THEN RegisterBound(st, providerId, providerDefinitionsById[providerId].create,
                       bindFeatureServices(st.sfs, st.uids,
                                           providerDefinitionsById[providerId],
                                           NoSpecifier))
    ELSE st

\* One iteration of the for loop of registerFeatureServices
RegisterOne(st, providerDefinitionsById, providerId) ==
  IF providerId \in DOMAIN st.sfs
    THEN IF providerId \in DOMAIN providerDefinitionsById
           THEN [st EXCEPT !.events = Append(@, <<"warn", providerId>>)]
           ELSE st
  ELSE IF providerId \in DOMAIN providerDefinitionsById
    THEN RegisterBound(st, providerId, providerDefinitionsById[providerId].create,
                       bindFeatureServices(st.sfs, st.uids,
                                           providerDefinitionsById[providerId],
                                           NoSpecifier))
  ELSE st

RECURSIVE RegisterLoop(_, _, _)
RegisterLoop(st, providerDefinitionsById, order) ==
  IF order = <<>> \/ st.error # "" THEN st
  ELSE RegisterLoop(RegisterOne(st, providerDefinitionsById, Head(order)),
                    providerDefinitionsById, Tail(order))

\* ------------------------------------------------------------------------
\* The operations
\* ------------------------------------------------------------------------
NoCall == <<Consumer("", <<>>, <<>>), NoSpecifier>>

\* op: the operation called last; error: the message of the error it threw,
\* "" when it returned; events: the calls and the console messages it made,
\* in order; batch: the ids of the definitions given, order: the toposorted
\* ids, failedAt: the id at which the loop threw (register); call: the
\* consumer and the specifier (bind); handle: the handle returned (bind) or
\* used (unbind); featureServices: the featureServices object returned
\* (bind); sfs, uids and handles: the state the operation was called in
NoOperation ==
  [op |-> "none", error |-> "", events |-> <<>>, batch |-> <<>>, order |-> <<>>,
   failedAt |-> "", call |-> NoCall, handle |-> 0, featureServices |-> <<>>,
   sfs |-> << >>, uids |-> {}, handles |-> <<>>]

\* The consumers that the shared Async SSR Manager is bound to beside the
\* integrator, each of which may call rerenderAfter in a render pass
Participants == {"test:consumer:1", "test:consumer:2"}

\* no rerenderAfter call in the pass
NoRerender == [p \in Participants |-> "none"]

\* The RenderSession before renderUntilCompleted is called. state: the state
\* of the loop; timeout: the configured timeout, NoTimeout when there is
\* none; passes: the invocations of the render function so far; pending:
\* for each participant the state of the promise it gave to rerenderAfter
\* in the current pass ("none", "unsettled", "fulfilled", "rejected");
\* rejections: the participants whose promises rejected, in the order in
\* which they did; history: what each invocation did; result: the value
\* the promise of renderUntilCompleted resolved with; failure: the error it
\* rejected with; failedInPass: the number of passes when it rejected
NoTimeout == <<>>

Idle(timeout) ==
  [state |-> "Idle", timeout |-> timeout, passes |-> 0, pending |-> NoRerender,
   rejections |-> <<>>, history |-> <<>>, result |-> <<>>, failure |-> <<>>,
   failedInPass |-> 0]

Init ==
  /\ renderSession = Idle(NoTimeout)
  /\ sharedFeatureServices = << >>
  /\ consumerUids = {}
  /\ handles = <<>>
  /\ createLog = [id \in ProviderIds |-> <<>>]
  /\ last = NoOperation

Called(op) ==
  [NoOperation EXCEPT !.op = op, !.sfs = sharedFeatureServices,
                      !.uids = consumerUids, !.handles = handles]

Ids(definitions) == [i \in DOMAIN definitions |-> definitions[i].id]

ReturnedHandles == {h \in DOMAIN handles : handles[h].returned}

\* RegisterCyclicOf for a registry that binds the first provider of the batch
\* before the cycle is found
RegisterCyclicBinds(batches) ==
  \E providerDefinitions \in batches :
    /\ toposortDependencies(createDependencyGraph(providerDefinitions)) = {}
    /\ last' = [Called("register") EXCEPT !.error = "cycle",
                                          !.batch = Ids(providerDefinitions)]
    /\ consumerUids' =
         consumerUids \cup {createUid(providerDefinitions[1].id, NoSpecifier)}
    /\ UNCHANGED <<sharedFeatureServices, handles, createLog, renderSession>>

\* registerFeatureServices(providerDefinitions, consumerId), toposort throws
RegisterCyclicOf(batches) ==
  \E providerDefinitions \in batches :
    /\ toposortDependencies(createDependencyGraph(providerDefinitions)) = {}
    /\ last' = [Called("register") EXCEPT !.error = "cycle",
                                          !.batch = Ids(providerDefinitions)]
    /\ UNCHANGED <<sharedFeatureServices, consumerUids, handles, createLog, renderSession>>

Registered(st, batch, order) ==
  /\ sharedFeatureServices' = st.sfs
  /\ consumerUids' = st.uids
  /\ handles' = st.handles
  /\ createLog' = st.createLog
  /\ last' = [Called("register") EXCEPT
                !.batch = batch, !.order = order, !.error = st.error,
                !.failedAt = st.failedAt, !.events = st.events]
  /\ UNCHANGED renderSession

\* registerFeatureServices(providerDefinitions, consumerId)
RegisterFeatureServicesOf(batches) ==
  \E providerDefinitions \in batches :
    \E order \in toposortDependencies(createDependencyGraph(providerDefinitions)) :
      Registered(RegisterLoop([sfs |-> sharedFeatureServices,
                               uids |-> consumerUids, handles |-> handles,
                               createLog |-> createLog, events |-> <<>>,
                               error |-> "", failedAt |-> ""],
                              createProviderDefinitionById(providerDefinitions),
                              order),
                 Ids(providerDefinitions), order)

Bound(call, bound, maxHandles) ==
  /\ bound.error = "" => Cardinality(ReturnedHandles) < maxHandles
  /\ IF bound.error = ""
       THEN /\ consumerUids' = consumerUids \cup {bound.consumerUid}
            /\ handles' = Append(handles, Handle(bound, TRUE))
       ELSE UNCHANGED <<consumerUids, handles>>
  /\ last' = [Called("bind") EXCEPT
                !.call = call, !.error = bound.error, !.events = bound.events,
                !.handle = IF bound.error = "" THEN Len(handles) + 1 ELSE 0,
                !.featureServices = bound.featureServices]
  /\ UNCHANGED <<sharedFeatureServices, createLog, renderSession>>

\* bindFeatureServices(consumerDefinition, consumerIdSpecifier)
BindFeatureServicesOf(calls, maxHandles) ==
  \E call \in calls :
    Bound(call,
          bindFeatureServices(sharedFeatureServices, consumerUids, call[1], call[2]),
          maxHandles)

\* binding.unbind() and the message after it, for the i-th binding
TeardownOne(acc, i, binding, throws) ==
  IF ~binding.hasUnbind
    THEN [acc EXCEPT !.events =
            Append(@, <<"unbound", binding.providerId, binding.version>>)]
    ELSE [acc EXCEPT
            !.bindings[i].unbindCalls = @ + 1,
            !.events = @ \o << <<"unbind", binding.providerId, binding.version>>,
                               <<IF throws THEN "couldNotBeUnbound" ELSE "unbound",
                                 binding.providerId, binding.version>> >>]

RECURSIVE TeardownStops(_, _, _)
\* Teardown without the try and catch: the first callback that throws ends it
TeardownStops(acc, i, throwing) ==
  IF i > Len(acc.bindings) THEN acc
  ELSE IF acc.bindings[i].hasUnbind /\ i \in throwing
    THEN TeardownOne(acc, i, acc.bindings[i], TRUE)
  ELSE TeardownStops(TeardownOne(acc, i, acc.bindings[i], FALSE), i + 1, throwing)

RECURSIVE Teardown(_, _, _)
\* the for loop of unbind over bindings.entries(); throwing is the set of
\* bindings whose unbind callback throws this time
Teardown(acc, i, throwing) ==
  IF i > Len(acc.bindings) THEN acc
  ELSE Teardown(TeardownOne(acc, i, acc.bindings[i], i \in throwing),
                i + 1, throwing)

\* Unbound with the uid left in the active set
UnboundKeepsUid(h, done) ==
  /\ handles' = [handles EXCEPT ![h].unbound = TRUE, ![h].bindings = done.bindings]
  /\ consumerUids' = consumerUids
  /\ last' = [Called("unbind") EXCEPT !.handle = h, !.events = done.events]
  /\ UNCHANGED <<sharedFeatureServices, createLog, renderSession>>

Unbound(h, done) ==
  /\ handles' = [handles EXCEPT ![h].unbound = TRUE, ![h].bindings = done.bindings]
  /\ consumerUids' = consumerUids \ {handles[h].consumerUid}
  /\ last' = [Called("unbind") EXCEPT !.handle = h, !.events = done.events]
  /\ UNCHANGED <<sharedFeatureServices, createLog, renderSession>>

\* unbind() of a handle that bindFeatureServices returned, first call
Unbind ==
  \E h \in ReturnedHandles :
    /\ ~handles[h].unbound
    /\ \E throwing \in SUBSET {i \in DOMAIN handles[h].bindings :
                                 handles[h].bindings[i].hasUnbind} :
         Unbound(h, Teardown([bindings |-> handles[h].bindings, events |-> <<>>],
                             1, throwing))

\* UnbindAgain without the unbound flag: the uid is deleted once more
UnbindAgainDeletes ==
  \E h \in ReturnedHandles :
    /\ handles[h].unbound
    /\ consumerUids' = consumerUids \ {handles[h].consumerUid}
    /\ last' = [Called("unbind") EXCEPT !.handle = h]
    /\ UNCHANGED <<sharedFeatureServices, handles, createLog, renderSession>>

\* UnbindAgain for a handle that tests the active set in place of its own
\* unbound flag
UnbindAgainByUid ==
  \E h \in ReturnedHandles :
    /\ handles[h].unbound
    /\ consumerUids' = consumerUids \ {handles[h].consumerUid}
    /\ last' = [Called("unbind") EXCEPT
                  !.handle = h,
                  !.error = IF handles[h].consumerUid \in consumerUids
                              THEN "" ELSE "featureServicesAlreadyUnbound"]
    /\ UNCHANGED <<sharedFeatureServices, handles, createLog, renderSession>>

\* unbind() of a handle that was unbound before
UnbindAgain ==
  \E h \in ReturnedHandles :
    /\ handles[h].unbound
    /\ last' = [Called("unbind") EXCEPT !.handle = h,
                                        !.error = "featureServicesAlreadyUnbound"]
    /\ UNCHANGED <<sharedFeatureServices, consumerUids, handles, createLog, renderSession>>

\* A registry on which batches of providers are registered, in any order
\* and with failures, beside a few consumers
RegisterCyclic == RegisterCyclicOf(Batches)
RegisterFeatureServices == RegisterFeatureServicesOf(Batches)
BindFeatureServices == BindFeatureServicesOf(RegistryBindCalls, MaxHandles)

Next ==
  \/ RegisterCyclic
  \/ RegisterFeatureServices
  \/ BindFeatureServices
  \/ Unbind
  \/ UnbindAgain

Spec == Init /\ [][Next]_vars

\* A registry whose consumers bind every kind of dependency, beside a few
\* providers
BinderRegisterCyclic == RegisterCyclicOf(BinderBatches)
BinderRegisterFeatureServices == RegisterFeatureServicesOf(BinderBatches)
BinderBindFeatureServices == BindFeatureServicesOf(BindCalls, MaxHandles)

NextBinder ==
  \/ BinderRegisterCyclic
  \/ BinderRegisterFeatureServices
  \/ BinderBindFeatureServices
  \/ Unbind
  \/ UnbindAgain

SpecBinder == Init /\ [][NextBinder]_vars

\* A registry whose consumers are bound, unbound and bound again
LifecycleRegisterCyclic == RegisterCyclicOf(BinderBatches)
LifecycleRegisterFeatureServices == RegisterFeatureServicesOf(BinderBatches)
LifecycleBindFeatureServices ==
  BindFeatureServicesOf(LifecycleBindCalls, MaxLifecycleHandles)

NextLifecycle ==
  \/ LifecycleRegisterCyclic
  \/ LifecycleRegisterFeatureServices
  \/ LifecycleBindFeatureServices
  \/ Unbind
  \/ UnbindAgain

SpecLifecycle == Init /\ [][NextLifecycle]_vars

\* ------------------------------------------------------------------------
\* The Async SSR Manager: renderUntilCompleted and rerenderAfter
\* ------------------------------------------------------------------------
\* the largest number of invocations of the render function
MaxPasses == 3

\* config.timeout of the Async SSR Manager, in ms
Timeout == 5

\* What the participants do in one invocation of the render function: each
\* calls rerenderAfter with a resolved promise, with a promise that is not
\* settled yet, or not at all
Rerenders == [Participants -> {"none", "fulfilled", "unsettled"}]

\* the value the render function returns in the given pass
Html(pass) == <<"html", pass>>

\* the error the render function throws in the given pass
RenderError(pass) == <<"threw", pass>>

Failed(session, failure) ==
  [session EXCEPT !.state = "Failed", !.failure = failure,
                  !.failedInPass = session.passes]

\* Rendered for a loop of one pass
RenderedOnce(session, rerenders) ==
  [session EXCEPT !.state = "Done", !.result = Html(session.passes)]

\* The end of a pass in which the render function returned
Rendered(session, rerenders) ==
  IF rerenders = NoRerender
    THEN [session EXCEPT !.state = "Done", !.result = Html(session.passes)]
    ELSE [session EXCEPT !.state = "Settling"]

\* RenderPass for a loop that catches the error of the render function
RenderPassCatches(session, rerenders, throws) ==
  Rendered([session EXCEPT
              !.passes = @ + 1, !.pending = rerenders,
              !.history = Append(@, [rerenders |-> rerenders, threw |-> throws])],
           rerenders)

\* One render pass: the render function is invoked, the participants call
\* rerenderAfter in it, and it returns or throws
RenderPass(session, rerenders, throws) ==
  IF throws
    THEN Failed([session EXCEPT
                   !.passes = @ + 1, !.pending = rerenders,
                   !.history = Append(@, [rerenders |-> rerenders, threw |-> TRUE])],
                RenderError(session.passes + 1))
    ELSE Rendered([session EXCEPT
                     !.passes = @ + 1, !.pending = rerenders,
                     !.history = Append(@, [rerenders |-> rerenders,
                                            threw |-> FALSE])],
                  rerenders)

Registry == <<sharedFeatureServices, consumerUids, handles, createLog, last>>

\* renderUntilCompleted(render): the first pass
RenderUntilCompleted ==
  /\ renderSession.state = "Idle"
  /\ \E rerenders \in Rerenders, throws \in BOOLEAN :
       renderSession' = RenderPass(renderSession, rerenders, throws)
  /\ UNCHANGED Registry

Unsettled == {p \in Participants : renderSession.pending[p] = "unsettled"}

\* A promise given to rerenderAfter is fulfilled or rejected
Settle ==
  /\ renderSession.state \in {"Settling", "Failed"}
  /\ \E p \in Unsettled :
       \/ renderSession' = [renderSession EXCEPT !.pending[p] = "fulfilled"]
       \/ renderSession' = [renderSession EXCEPT !.pending[p] = "rejected",
                                                 !.rejections = Append(@, p)]
  /\ UNCHANGED Registry

\* Rerender as soon as one promise of the pass is fulfilled
RerenderAfterAny ==
  /\ renderSession.state = "Settling"
  /\ \E p \in Participants : renderSession.pending[p] = "fulfilled"
  /\ renderSession.rejections = <<>>
  /\ renderSession.passes < MaxPasses
  /\ \E rerenders \in Rerenders, throws \in BOOLEAN :
       renderSession' = RenderPass(renderSession, rerenders, throws)
  /\ UNCHANGED Registry

\* Rerender once every promise of the pass is settled, fulfilled or not
RerenderAfterSettled ==
  /\ renderSession.state = "Settling"
  /\ Unsettled = {}
  /\ renderSession.passes < MaxPasses
  /\ \E rerenders \in Rerenders, throws \in BOOLEAN :
       renderSession' = RenderPass(renderSession, rerenders, throws)
  /\ UNCHANGED Registry

\* Every promise of the pass is fulfilled: the pending set is discarded and
\* the render function is invoked again
Rerender ==
  /\ renderSession.state = "Settling"
  /\ \A p \in Participants : renderSession.pending[p] \in {"none", "fulfilled"}
  /\ renderSession.passes < MaxPasses
  /\ \E rerenders \in Rerenders, throws \in BOOLEAN :
       renderSession' = RenderPass(renderSession, rerenders, throws)
  /\ UNCHANGED Registry

\* A promise of the pass is rejected: renderUntilCompleted rejects with the
\* failure of the first one that was
RerenderRejected ==
  /\ renderSession.state = "Settling"
  /\ renderSession.rejections # <<>>
  /\ renderSession' =
       Failed(renderSession, <<"rejected", Head(renderSession.rejections)>>)
  /\ UNCHANGED Registry

\* RenderTimeout for a loop that goes on after the timeout
RenderTimeoutContinues ==
  /\ renderSession.state = "Settling"
  /\ renderSession.timeout # NoTimeout
  /\ renderSession.rejections = <<>>
  /\ renderSession.failure = <<>>
  /\ Unsettled # {}
  /\ renderSession' =
       [renderSession EXCEPT !.failure = <<"timeout", renderSession.timeout[1]>>,
                             !.failedInPass = renderSession.passes]
  /\ UNCHANGED Registry

\* The timer of the configured timeout fires while the loop waits for a
\* promise that is not settled
RenderTimeout ==
  /\ renderSession.state = "Settling"
  /\ renderSession.timeout # NoTimeout
  /\ renderSession.rejections = <<>>
  /\ Unsettled # {}
  /\ renderSession' = Failed(renderSession, <<"timeout", renderSession.timeout[1]>>)
  /\ UNCHANGED Registry

\* an Async SSR Manager created with or without a timeout; no registry
\* operation is called
InitRender ==
  /\ renderSession \in {Idle(NoTimeout), Idle(<<Timeout>>)}
  /\ sharedFeatureServices = << >>
  /\ consumerUids = {}
  /\ handles = <<>>
  /\ createLog = [id \in ProviderIds |-> <<>>]
  /\ last = NoOperation

NextRender ==
  \/ RenderUntilCompleted
  \/ Settle
  \/ Rerender
  \/ RerenderRejected
  \/ RenderTimeout

SpecRender == InitRender /\ [][NextRender]_vars

\* ------------------------------------------------------------------------
\* Properties
\* ------------------------------------------------------------------------
Range(seq) == {seq[i] : i \in DOMAIN seq}

HasEvent(kind, id) ==
  \E i \in DOMAIN last.events :
    last.events[i][1] = kind /\ last.events[i][2] = id

Pos(seq, x) == CHOOSE i \in DOMAIN seq : seq[i] = x

\* the ids of the batch of the last call that were registered before it
StoredBefore == DOMAIN last.sfs \cap Range(last.batch)

\* the loop of the last registerFeatureServices call came to the id
Reached(id) ==
  /\ last.error # "cycle"
  /\ last.error = "" \/ Pos(last.order, id) < Pos(last.order, last.failedAt)

Ignored(id) ==
  /\ ~HasEvent("create", id)
  /\ id \in DOMAIN sharedFeatureServices
  /\ Len(createLog[id]) >= 1
  /\ sharedFeatureServices[id] = createLog[id][1].returns
  /\ last.failedAt # id

\* C1 as stated: a registerFeatureServices call whose batch has a definition
\* of an id that is already registered does not call its create, leaves the
\* stored SharedFeatureService the result of the first create call, emits
\* the already-registered warning and does not throw at that id.
C1_RegisteredAgainWarns ==
  last.op = "register" =>
    \A id \in StoredBefore : Ignored(id) /\ HasEvent("warn", id)

\* C1 amended: the same, the warning being emitted when the call comes to
\* the id, that is unless it throws the cycle error or throws at an id that
\* is before it in the resolved order.
C1_RegisteredAgainIsIgnored ==
  last.op = "register" =>
    \A id \in StoredBefore : Ignored(id) /\ (Reached(id) => HasEvent("warn", id))

C1_Witness ==
  /\ last.op = "register"
  /\ \E id \in StoredBefore : HasEvent("warn", id) /\ Len(last.batch) = 2

\* ---- the handles ----
LastUid == createUid(last.call[1].id, last.call[2])

LiveHandles(uid) ==
  {h \in DOMAIN handles : handles[h].consumerUid = uid /\ ~handles[h].unbound}

Binders == {i \in DOMAIN last.events : last.events[i][1] = "binder"}

AllUids == {createUid(call[1].id, call[2]) : call \in BindCalls}
             \cup {createUid(id, NoSpecifier) : id \in ProviderIds}

\* C2: bindFeatureServices for a uid of the active set throws the
\* already-bound error, calls no Binder and leaves the active set, the
\* provider map and the handles as they were; no uid has two live handles.
C2_ActiveUidIsNotBoundAgain ==
  /\ (last.op = "bind" /\ LastUid \in last.uids) =>
       /\ last.error = "featureServicesAlreadyBound"
       /\ Binders = {}
       /\ consumerUids = last.uids
       /\ sharedFeatureServices = last.sfs
       /\ handles = last.handles
  /\ \A uid \in AllUids : Cardinality(LiveHandles(uid)) <= 1

C2_Witness ==
  /\ last.op = "bind"
  /\ last.error = "featureServicesAlreadyBound"
  /\ \E h \in LiveHandles(LastUid) : handles[h].returned /\ handles[h].bindings # <<>>
  /\ \E h \in DOMAIN handles : handles[h].consumerUid = LastUid /\ handles[h].unbound

\* the calls of bindFeatureServices with the uid
CallsOf(uid) == {call \in BindCalls : createUid(call[1].id, call[2]) = uid}

BindNow(call) ==
  bindFeatureServices(sharedFeatureServices, consumerUids, call[1], call[2])

\* the dependency of a consumer on the id with the range can be bound: a
\* range is declared, the id is registered and a version it exposes is in
\* the range
Resolves(sfs, id, range) ==
  /\ ~Falsy(range)
  /\ id \in DOMAIN sfs
  /\ \E i \in DOMAIN sfs[id] : satisfies(coerce(sfs[id][i][1]), range)

Required(definition) ==
  {definition.dependencies[i][1] : i \in DOMAIN definition.dependencies}

RequiredResolve(sfs, definition) ==
  \A id \in Required(definition) :
    Resolves(sfs, id, Get(definition.dependencies, id))

\* C3: when the first unbind() of a handle has returned, the uid of the
\* handle is not in the active set and bindFeatureServices for the same id
\* and specifier is not refused as already bound, it returns when the
\* required dependencies can be bound; so it is whatever the teardown
\* callbacks threw.
C3_UnboundUidBindsAgain ==
  (last.op = "unbind" /\ ~last.handles[last.handle].unbound) =>
    /\ last.error = ""
    /\ handles[last.handle].consumerUid \notin consumerUids
    /\ \A call \in CallsOf(handles[last.handle].consumerUid) :
         /\ BindNow(call).error # "featureServicesAlreadyBound"
         /\ RequiredResolve(sharedFeatureServices, call[1])
              => BindNow(call).error = ""

\* the unbind() of a consumer with two bindings, both teardown callbacks
\* having thrown, after which its bindFeatureServices call returns again
C3_Witness ==
  /\ last.op = "unbind" /\ last.error = ""
  /\ Cardinality({i \in DOMAIN last.events :
                    last.events[i][1] = "couldNotBeUnbound"}) = 2
  /\ \E call \in CallsOf(handles[last.handle].consumerUid) :
       /\ Len(call[1].dependencies) = 2
       /\ BindNow(call).error = ""
       /\ Len(BindNow(call).bindings) = 2

\* the teardown callbacks called by the last unbind(), in order
TeardownCalls ==
  SelectSeq(last.events, LAMBDA e : e[1] = "unbind")

WithCallback(bindings) == SelectSeq(bindings, LAMBDA b : b.hasUnbind)

\* C4: the first unbind() of a handle calls the unbind callback of every
\* binding that has one exactly once, in the order of the bindings; a
\* callback that throws stops neither the later callbacks nor unbind().
C4_EveryTeardownRunsOnce ==
  (last.op = "unbind" /\ ~last.handles[last.handle].unbound) =>
    /\ last.error = ""
    /\ \A i \in DOMAIN handles[last.handle].bindings :
         /\ last.handles[last.handle].bindings[i].unbindCalls = 0
         /\ handles[last.handle].bindings[i].unbindCalls =
              IF handles[last.handle].bindings[i].hasUnbind THEN 1 ELSE 0
    /\ [i \in DOMAIN TeardownCalls |-> TeardownCalls[i][2]]
         = [i \in DOMAIN WithCallback(handles[last.handle].bindings) |->
              WithCallback(handles[last.handle].bindings)[i].providerId]

\* the first of two teardown callbacks threw and the second was called
C4_Witness ==
  /\ last.op = "unbind" /\ last.error = ""
  /\ Len(last.events) = 4
  /\ last.events[2][1] = "couldNotBeUnbound"
  /\ last.events[3][1] = "unbind"
  /\ last.events[4][1] = "unbound"
  /\ last.events[1][2] # last.events[3][2]

\* C5: unbind() of a handle that was unbound before throws the
\* already-unbound error, calls no teardown callback and leaves the active
\* set as it was.
C5_SecondUnbindThrows ==
  (last.op = "unbind" /\ last.handles[last.handle].unbound) =>
    /\ last.error = "featureServicesAlreadyUnbound"
    /\ last.events = <<>>
    /\ handles = last.handles
    /\ consumerUids = last.uids

\* the handle is unbound again while its consumer is bound with a new handle
C5_Witness ==
  /\ last.op = "unbind"
  /\ last.error = "featureServicesAlreadyUnbound"
  /\ handles[last.handle].bindings # <<>>
  /\ handles[last.handle].consumerUid \in consumerUids

\* ---- the dependencies of a consumer ----
Optional(definition) ==
  {definition.optionalDependencies[i][1] :
     i \in DOMAIN definition.optionalDependencies} \ Required(definition)

\* the range a consumer declares for the id
RangeOf(definition, id) ==
  IF id \in Required(definition)
    THEN Get(definition.dependencies, id)
    ELSE Get(definition.optionalDependencies, id)

\* the message for a dependency that cannot be bound
MessageFor(sfs, id, range) ==
  IF Falsy(range) THEN "featureServiceDependencyVersionInvalid"
  ELSE IF id \notin DOMAIN sfs THEN "featureServiceNotRegistered"
  ELSE "featureServiceUnsupported"

ThrewAt == {i \in DOMAIN last.events : last.events[i][1] = "threw"}

\* C6: bindFeatureServices throws when a required dependency cannot be
\* bound, because no range is declared for it, its id is not registered or
\* no version of it is in the range; then the uid is not added to the active
\* set and the provider map is as it was.
C6_UnresolvedRequiredThrows ==
  (/\ last.op = "bind"
   /\ LastUid \notin last.uids
   /\ ~RequiredResolve(last.sfs, last.call[1])) =>
    /\ last.error # ""
    /\ \E i \in ThrewAt :
         /\ last.events[i][2] \in Required(last.call[1])
         /\ ~Resolves(last.sfs, last.events[i][2],
                      RangeOf(last.call[1], last.events[i][2]))
         /\ last.events[i][3] = MessageFor(last.sfs, last.events[i][2],
                                 RangeOf(last.call[1], last.events[i][2]))
         /\ last.error = last.events[i][3]
    /\ LastUid \notin consumerUids
    /\ consumerUids = last.uids
    /\ sharedFeatureServices = last.sfs
    /\ handles = last.handles

\* a required dependency on a registered provider, none of whose versions
\* is in the range, and one without a range
C6_Witness ==
  /\ last.op = "bind"
  /\ last.error = "featureServiceUnsupported"
  /\ LastUid \notin consumerUids
  /\ \E call \in BindCalls :
       /\ createUid(call[1].id, call[2]) = LastUid
       /\ BindNow(call).error = "featureServiceDependencyVersionInvalid"

BoundIds == {last.events[i][2] : i \in Binders}

\* C7: an optional dependency that cannot be bound does not make
\* bindFeatureServices throw: when the required dependencies can be bound
\* the call returns, the uid is active, the dependencies that can be bound
\* are bound, each by one Binder call, and those that cannot are not in
\* featureServices and no Binder is called for them.
C7_UnresolvedOptionalIsSkipped ==
  /\ last.op = "bind" =>
       \A i \in ThrewAt : last.events[i][2] \in Required(last.call[1])
  /\ (/\ last.op = "bind"
      /\ LastUid \notin last.uids
      /\ RequiredResolve(last.sfs, last.call[1])) =>
       /\ last.error = ""
       /\ LastUid \in consumerUids
       /\ \A id \in Required(last.call[1]) \cup Optional(last.call[1]) :
            IF Resolves(last.sfs, id, RangeOf(last.call[1], id))
              THEN /\ HasOwnProperty(last.featureServices, id)
                   /\ Cardinality({i \in Binders : last.events[i][2] = id}) = 1
              ELSE /\ ~HasOwnProperty(last.featureServices, id)
                   /\ id \notin BoundIds

\* two optional dependencies are skipped, one not registered and one without
\* a range, and the required one is bound
C7_Witness ==
  /\ last.op = "bind" /\ last.error = ""
  /\ \E i, j \in DOMAIN last.events :
       /\ last.events[i][1] = "skipped"
       /\ last.events[i][3] = "featureServiceNotRegistered"
       /\ last.events[j][1] = "skipped"
       /\ last.events[j][3] = "featureServiceDependencyVersionInvalid"
  /\ BoundIds # {}
  /\ LastUid \in consumerUids

\* the version of the SharedFeatureService that is declared first among
\* those in the range
FirstDeclared(sharedFeatureService, range) ==
  sharedFeatureService[
    CHOOSE i \in DOMAIN sharedFeatureService :
      /\ satisfies(coerce(sharedFeatureService[i][1]), range)
      /\ \A j \in 1..(i - 1) :
           ~satisfies(coerce(sharedFeatureService[j][1]), range)][1]

\* C8: the Binder that bindFeatureServices calls for a dependency is the
\* one of the version declared first by the provider among the versions
\* whose coerced version is in the range.
C8_FirstDeclaredVersionIsBound ==
  last.op = "bind" =>
    \A i \in Binders :
      last.events[i][3] =
        FirstDeclared(last.sfs[last.events[i][2]],
                      RangeOf(last.call[1], last.events[i][2]))

\* ---- the order of registration ----
DependencyEvents ==
  {i \in DOMAIN last.events : last.events[i][1] \in {"binder", "skipped", "threw"}}

\* C9: in a registerFeatureServices call, a dependency of a provider on an
\* id of the same batch is resolved, and so the create of the provider is
\* called, only when that id is committed to the registry; it is never
\* reported as not registered.
C9_DependenciesAreRegisteredFirst ==
  last.op = "register" =>
    \A i \in DependencyEvents :
      last.events[i][2] \in Range(last.batch) =>
        /\ \E j \in 1..(i - 1) :
             /\ last.events[j][1] \in {"registered", "warn"}
             /\ last.events[j][2] = last.events[i][2]
        /\ last.events[i][3] # "featureServiceNotRegistered"

\* the batch lists b, which depends on a, before a; a is registered first and
\* bound to b before the create of b
C9_Witness ==
  /\ last.op = "register"
  /\ last.batch = <<"b", "a">>
  /\ last.order = <<"a", "b">>
  /\ \E i, j, k \in DOMAIN last.events :
       /\ i < j /\ j < k
       /\ last.events[i] = <<"registered", "a">>
       /\ last.events[j][1] = "binder" /\ last.events[j][2] = "a"
       /\ last.events[k] = <<"create", "b">>

\* C10: when registerFeatureServices throws at a provider of the resolved
\* order, the providers before it in the order are in the registry and the
\* provider and those after it are not added to it by the call.
C10_FailedBatchIsNotRolledBack ==
  (last.op = "register" /\ last.error \notin {"", "cycle"}) =>
    /\ last.failedAt \in Range(last.order)
    /\ \A i \in DOMAIN last.order :
         IF i < Pos(last.order, last.failedAt)
           THEN last.order[i] \in DOMAIN sharedFeatureServices
           ELSE last.order[i] \notin DOMAIN sharedFeatureServices
                  \/ /\ last.order[i] \in DOMAIN last.sfs
                     /\ sharedFeatureServices[last.order[i]]
                          = last.sfs[last.order[i]]

\* the call registered the first provider and threw at the second
C10_Witness ==
  /\ last.op = "register"
  /\ last.error \in {"createThrew", "featureServiceVersionInvalid"}
  /\ Len(last.order) = 2
  /\ last.failedAt = last.order[2]
  /\ last.order[1] \in DOMAIN sharedFeatureServices \ DOMAIN last.sfs

\* ---- the provider map ----
\* C11: every version key of every SharedFeatureService of the registry is
\* coercible to a semantic version; a registerFeatureServices call in which
\* a create returns a SharedFeatureService with a key that is not throws and
\* does not store it.
C11_StoredVersionsAreCoercible ==
  /\ \A id \in DOMAIN sharedFeatureServices :
       \A i \in DOMAIN sharedFeatureServices[id] :
         coerce(sharedFeatureServices[id][i][1]) # Null
  /\ \A id \in DOMAIN createLog :
       (/\ last.op = "register"
        /\ HasEvent("create", id)
        /\ ~createLog[id][Len(createLog[id])].throws
        /\ InvalidVersions(createLog[id][Len(createLog[id])].returns) # {})
         => /\ last.error = "featureServiceVersionInvalid"
            /\ last.failedAt = id
            /\ id \notin DOMAIN sharedFeatureServices

\* the create of b returned a SharedFeatureService with the key "foo": the
\* call threw, b is not stored and a is
C11_Witness ==
  /\ last.op = "register"
  /\ last.error = "featureServiceVersionInvalid"
  /\ last.failedAt = "b"
  /\ HasEvent("create", "b")
  /\ "b" \notin DOMAIN sharedFeatureServices
  /\ "a" \in DOMAIN sharedFeatureServices

\* C12: the provider map is append-only: no operation removes an id or
\* replaces its SharedFeatureService, and bindFeatureServices and unbind
\* leave the map as it is.
C12_ProviderMapIsAppendOnly ==
  [][/\ \A id \in DOMAIN sharedFeatureServices :
          /\ id \in DOMAIN sharedFeatureServices'
          /\ sharedFeatureServices'[id] = sharedFeatureServices[id]
     /\ last'.op # "register" => sharedFeatureServices' = sharedFeatureServices
     /\ last'.sfs = sharedFeatureServices]_vars

\* a registerFeatureServices call added an id to a map that had one, after
\* a bind and an unbind
C12_Witness ==
  /\ last.op = "register"
  /\ last.sfs # << >>
  /\ DOMAIN sharedFeatureServices # DOMAIN last.sfs
  /\ \E h \in DOMAIN handles : handles[h].returned /\ handles[h].unbound

\* C13: a registerFeatureServices call that throws the dependency-cycle
\* error has called no create and no Binder, and the provider map, the
\* active set and the bindings are as they were before the call.
C13_CyclicBatchIsAborted ==
  (last.op = "register" /\ last.error = "cycle") =>
    /\ last.events = <<>>
    /\ sharedFeatureServices = last.sfs
    /\ consumerUids = last.uids
    /\ handles = last.handles

\* the cycle error in a registry that has a provider and an active consumer
C13_Witness ==
  /\ last.op = "register"
  /\ last.error = "cycle"
  /\ sharedFeatureServices # << >>
  /\ consumerUids # {}

\* ---- an id in dependencies and in optionalDependencies ----
Both(definition) ==
  {id \in Required(definition) :
     HasOwnProperty(definition.optionalDependencies, id)}

\* C19: an id that a consumer declares in dependencies and in
\* optionalDependencies is required and has the range of dependencies:
\* bindFeatureServices never skips it, calls its Binder at most once and
\* with a version in that range, and throws when it cannot be bound with
\* that range.
C19_RequiredTakesPrecedence ==
  last.op = "bind" =>
    \A id \in Both(last.call[1]) :
      /\ ~HasEvent("skipped", id)
      /\ Cardinality({i \in Binders : last.events[i][2] = id}) <= 1
      /\ \A i \in Binders :
           last.events[i][2] = id =>
             satisfies(coerce(last.events[i][3]),
                       Get(last.call[1].dependencies, id))
      /\ \A i \in ThrewAt :
           last.events[i][2] = id =>
             last.events[i][3] =
               MessageFor(last.sfs, id, Get(last.call[1].dependencies, id))
      /\ LastUid \notin last.uids =>
           IF Resolves(last.sfs, id, Get(last.call[1].dependencies, id))
             THEN last.error = "" => id \in BoundIds
             ELSE last.error # "" /\ id \notin BoundIds

\* the range of optionalDependencies can be bound and that of dependencies
\* cannot: the call throws
C19_Witness ==
  /\ last.op = "bind"
  /\ last.error = "featureServiceUnsupported"
  /\ \E id \in Both(last.call[1]) :
       /\ Resolves(last.sfs, id, Get(last.call[1].optionalDependencies, id))
       /\ ~Resolves(last.sfs, id, Get(last.call[1].dependencies, id))
       /\ HasEvent("threw", id)

\* ---- the uid of a provider whose registration failed ----
\* C20: when registerFeatureServices throws at a provider because its create
\* throws or because a version key of its SharedFeatureService is not
\* coercible, the uid that was bound for the provider is not in the active
\* set afterwards, and a later registerFeatureServices call does not throw
\* the already-bound error at a provider that is not registered and has no
\* live binding.
C20_FailedProviderUidIsReleased ==
  /\ (/\ last.op = "register"
      /\ last.error \in {"createThrew", "featureServiceVersionInvalid"})
       => createUid(last.failedAt, NoSpecifier) \notin consumerUids
  /\ (/\ last.op = "register"
      /\ last.error = "featureServicesAlreadyBound")
       => \E h \in DOMAIN last.handles :
            /\ last.handles[h].consumerUid = createUid(last.failedAt, NoSpecifier)
            /\ last.handles[h].returned
            /\ ~last.handles[h].unbound

\* ---- the render loop ----
Passes == DOMAIN renderSession.history

Rejected(kind) ==
  /\ renderSession.failure # <<>>
  /\ renderSession.failure[1] = kind

\* C14: renderUntilCompleted resolves after k + 1 invocations of the render
\* function, with the value of the last one, when rerenderAfter is called
\* in each of the first k invocations and in no later one: the last
\* invocation is the only one without a rerenderAfter call.
C14_RendersUntilNoRerender ==
  /\ renderSession.passes = Len(renderSession.history)
  /\ renderSession.state = "Done" =>
       /\ renderSession.passes >= 1
       /\ \A i \in Passes :
            /\ ~renderSession.history[i].threw
            /\ (renderSession.history[i].rerenders = NoRerender)
                 <=> (i = renderSession.passes)
       /\ renderSession.result = Html(renderSession.passes)
  /\ renderSession.result # <<>> => renderSession.state = "Done"
  /\ \A i \in Passes :
       (renderSession.history[i].rerenders = NoRerender
          /\ ~renderSession.history[i].threw)
         => renderSession.state = "Done" /\ i = renderSession.passes

\* one rerenderAfter call with a resolved promise in the first pass: two
\* invocations
C14_Witness ==
  /\ renderSession.state = "Done"
  /\ renderSession.passes = 2
  /\ renderSession.result = Html(2)
  /\ \E p \in Participants :
       /\ renderSession.history[1].rerenders[p] = "fulfilled"
       /\ \A q \in Participants \ {p} :
            renderSession.history[1].rerenders[q] = "none"

\* C15: the promises that the participants give to rerenderAfter in one
\* pass cause one further pass together, and it starts only when each of
\* them is fulfilled; the promises of the new pass replace them.
C15_RerendersAreAUnion ==
  [][renderSession'.passes # renderSession.passes =>
       /\ renderSession'.passes = renderSession.passes + 1
       /\ renderSession'.pending =
            renderSession'.history[renderSession'.passes].rerenders
       /\ renderSession.passes >= 1 =>
            /\ renderSession.state = "Settling"
            /\ renderSession.pending # NoRerender
            /\ \A p \in Participants :
                 renderSession.pending[p] \in {"none", "fulfilled"}]_vars

\* the two participants called rerenderAfter in the first pass with promises
\* that were not settled, and the second pass was the last
C15_Witness ==
  /\ renderSession.state = "Done"
  /\ renderSession.passes = 2
  /\ \A p \in Participants : renderSession.history[1].rerenders[p] = "unsettled"

\* C16: renderUntilCompleted rejects with the timeout error, which names
\* the configured timeout, only when a timeout is configured; it does so
\* while a promise of the pass is not settled, and the render function is
\* not invoked after it, whatever the promise does later.
C16_TimeoutRejectsWithoutWaiting ==
  Rejected("timeout") =>
    /\ renderSession.state = "Failed"
    /\ renderSession.timeout = <<Timeout>>
    /\ renderSession.failure = <<"timeout", Timeout>>
    /\ renderSession.result = <<>>
    /\ renderSession.passes = renderSession.failedInPass
    /\ \E p \in Participants :
         renderSession.history[renderSession.passes].rerenders[p] = "unsettled"

\* the timeout elapsed in the first pass before the promises were settled;
\* they were fulfilled later and the render function was invoked once
C16_Witness ==
  /\ Rejected("timeout")
  /\ renderSession.passes = 1
  /\ \A p \in Participants :
       /\ renderSession.history[1].rerenders[p] = "unsettled"
       /\ renderSession.pending[p] = "fulfilled"

\* C17: when the render function throws in a pass, renderUntilCompleted
\* rejects with the error it threw and the render function is not invoked
\* again.
C17_RenderErrorRejects ==
  \A i \in Passes :
    renderSession.history[i].threw =>
      /\ i = renderSession.passes
      /\ renderSession.state = "Failed"
      /\ renderSession.failure = RenderError(i)
      /\ renderSession.failedInPass = i
      /\ renderSession.result = <<>>

\* the render function threw in the second pass
C17_Witness ==
  /\ renderSession.passes = 2
  /\ renderSession.history[2].threw
  /\ renderSession.state = "Failed"

\* C18: once a promise of the pass is rejected no further pass is started:
\* renderUntilCompleted rejects with the failure of the promise, also when
\* the other promises of the pass are fulfilled, and stays rejected.
C18_RejectedPromiseRejects ==
  [][/\ (renderSession.state = "Settling" /\ renderSession.rejections # <<>>) =>
          /\ renderSession'.passes = renderSession.passes
          /\ \/ renderSession'.state = "Settling"
             \/ /\ renderSession'.state = "Failed"
                /\ renderSession'.failure =
                     <<"rejected", Head(renderSession.rejections)>>
     /\ renderSession.state = "Failed" =>
          /\ renderSession'.state = "Failed"
          /\ renderSession'.passes = renderSession.passes
          /\ renderSession'.failure = renderSession.failure]_vars

\* one promise of the first pass was rejected and the other was fulfilled
C18_Witness ==
  /\ Rejected("rejected")
  /\ renderSession.state = "Failed"
  /\ renderSession.passes = 1
  /\ \E p \in Participants : renderSession.pending[p] = "fulfilled"

\* ---- the bindings of a bindFeatureServices call that throws ----
\* C21: when bindFeatureServices throws at a dependency, the unbind callback
\* of every Binding that the call got from a Binder before is called before
\* the error is thrown.
C21_FailedBindReleasesBindings ==
  (last.op = "bind" /\ last.error # "") =>
    \A i \in Binders :
      \E j \in DOMAIN last.events :
        /\ i < j
        /\ last.events[j] = <<"unbind", last.events[i][2], last.events[i][3]>>

\* ---- a handle of an earlier binding of a uid ----
\* the live handles of the uid of the handle, other than the handle itself,
\* when the last operation was called
NewerHandles(h) ==
  {g \in DOMAIN last.handles \ {h} :
     /\ last.handles[g].consumerUid = last.handles[h].consumerUid
     /\ last.handles[g].returned
     /\ ~last.handles[g].unbound}

\* C22: unbind() of a handle that was unbound before, called while its uid
\* is bound again with a new handle, throws the already-unbound error,
\* leaves the uid in the active set and calls no teardown callback of the
\* new binding, which stays live.
C22_StaleHandleIsHarmless ==
  (last.op = "unbind" /\ last.handles[last.handle].unbound) =>
    \A g \in NewerHandles(last.handle) :
      /\ last.error = "featureServicesAlreadyUnbound"
      /\ handles[g].consumerUid \in consumerUids
      /\ TeardownCalls = <<>>
      /\ ~handles[g].unbound
      /\ \A i \in DOMAIN handles[g].bindings :
           handles[g].bindings[i].unbindCalls = 0

\* the first handle of a uid is unbound again while the second one is live
\* and holds a binding with an unbind callback
C22_Witness ==
  /\ last.op = "unbind"
  /\ last.error = "featureServicesAlreadyUnbound"
  /\ \E g \in NewerHandles(last.handle) :
       /\ last.handle < g
       /\ \E i \in DOMAIN handles[g].bindings : handles[g].bindings[i].hasUnbind

\* ---- the uid of a registered provider ----
\* C23: the uid of every provider of the registry is in the active set,
\* the binding made for a provider in its registration is never unbound,
\* and bindFeatureServices for a consumer that has the id of a registered
\* provider and no specifier throws the already-bound error and calls no
\* Binder.
C23_ProviderUidStaysActive ==
  /\ \A id \in DOMAIN sharedFeatureServices :
       createUid(id, NoSpecifier) \in consumerUids
  /\ \A h \in DOMAIN handles : ~handles[h].returned => ~handles[h].unbound
  /\ (/\ last.op = "bind"
      /\ last.call[2] = NoSpecifier
      /\ last.call[1].id \in DOMAIN last.sfs) =>
       /\ last.error = "featureServicesAlreadyBound"
       /\ Binders = {}
       /\ consumerUids = last.uids

\* a consumer with the id a was bound and unbound, a was registered, and the
\* consumer cannot be bound again
C23_Witness ==
  /\ last.op = "bind"
  /\ last.call[1].id \in DOMAIN sharedFeatureServices
  /\ last.error = "featureServicesAlreadyBound"
  /\ \E h \in DOMAIN handles :
       /\ handles[h].consumerUid = LastUid
       /\ handles[h].returned
       /\ handles[h].unbound

\* C24: create is called at most once for each provider id, also when a
\* batch has two definitions of the id and when an earlier call threw at
\* the id.
C24_CreateIsCalledOnce ==
  /\ \A id \in DOMAIN createLog : Len(createLog[id]) <= 1
  /\ last.op = "register" =>
       \A id \in ProviderIds :
         Cardinality({i \in DOMAIN last.events :
                        last.events[i] = <<"create", id>>}) <= 1

\* a batch with two definitions of a, registered after the create of a
\* threw in an earlier call
C24_Witness ==
  /\ last.op = "register"
  /\ last.batch = <<"a", "a">>
  /\ ~HasEvent("create", "a")
  /\ Len(createLog["a"]) = 1
  /\ createLog["a"][1].throws
  /\ "a" \notin DOMAIN sharedFeatureServices

====
